---- MODULE Spec2Model ----
(***************************************************************************)
(* Camera.py: a Qt camera application.  One main (GUI) thread runs the     *)
(* event loop of CameraApp; every VideoRecorder is a QThread whose run()   *)
(* executes on its own thread.  The signals recording_started and          *)
(* recording_stopped are emitted on the worker thread and received by      *)
(* slots of an object living on the main thread, so Qt queues them and the *)
(* main thread's event loop delivers them in order.                        *)
(*                                                                         *)
(* A worker's position is the source line it executes next.  The main      *)
(* thread is either in its event loop ("idle"), blocked in QThread.wait()  *)
(* ("stop_wait", "close_wait"), past closeEvent ("closed") or gone         *)
(* ("aborted").  QFileDialog.getExistingDirectory is modal: it blocks the  *)
(* buttons and the window's close box, and runs a nested event loop, in    *)
(* which timer ticks and queued signals are still delivered; the handlers  *)
(* waiting in such a dialog form the stack `dialogs`.                      *)
(***************************************************************************)
EXTENDS Integers, Sequences, FiniteSets, TLC

\* ------------------------------------------------------------------ bounds
MaxWorkers == 2     \* VideoRecorder objects created in one run
MaxTime == 1        \* datetime.now() ranges over the seconds 0..MaxTime
MaxFrames == 2      \* frames the camera delivers in one run
MaxPhotos == 1      \* clicks on "Capture Photo" in one run

Workers == 1..MaxWorkers
None == 0                       \* Python's None, as a worker reference
Photo == -1                     \* content of a file written by cv.imwrite
NoFrame == 0                    \* the frame cap.read() returns with ret = False
Unbound == -1                   \* run()'s local `frame` before the first read

\* ------------------------------------------------------------- file system
Cwd == "."                      \* the working directory of the process
Dirs == {Cwd, "D1"}             \* directories the user can pick
NoDir == ""                     \* getExistingDirectory when canceled
Paths == Dirs \X {"Recorder", "capture"} \X (0..MaxTime)

VARIABLES
    now,            \* the clock, in seconds
    delivered,      \* frames the camera has handed out so far
    released,       \* cap.release() has been called
    display,        \* the frame shown in picture_box (0: the initial text)
    files,          \* path -> content (0: no file; w: recording of worker w)
    nworkers,       \* VideoRecorder objects created so far
    wpc,            \* worker -> the line of run() it executes next
    is_recording,   \* worker -> VideoRecorder.is_recording
    out,            \* worker -> VideoRecorder.out: none, open, failed, closed
    temp_file_name, \* worker -> the timestamp in VideoRecorder.temp_file_name
    frame,          \* worker -> run()'s local `frame`: what line 28 last read
    video,          \* worker -> the frames its encoder has been given
    queue,          \* queued signals on their way to the main thread
    video_thread,   \* CameraApp.video_thread
    label,          \* the text of video_btn
    mainPc,         \* the main thread's position
    dialogs,        \* handlers of the main thread waiting in a modal dialog
    toggles,        \* history: the branch each toggle_video_recording took
    handled,        \* history: worker -> how on_recording_stopped ended
    save_dir,       \* history: worker -> the directory its dialog returned
    photo_calls,    \* history: calls of save_image so far
    photo_ret,      \* history: the last save_image's ret
    photo_dir       \* history: what the last photo dialog returned

vars == <<now, delivered, released, display, files, nworkers, wpc, is_recording,
          out, temp_file_name, frame, video, queue, video_thread, label, mainPc,
          dialogs, toggles, handled, save_dir, photo_calls, photo_ret, photo_dir>>

capVars == <<delivered, released>>
workerVars == <<nworkers, wpc, is_recording, out, temp_file_name, frame, video>>
photoVars == <<photo_calls, photo_ret, photo_dir>>
histVars == <<toggles, handled, save_dir>>

\* --------------------------------------------------------------- helpers
\* Line 17: the name is fixed when the object is constructed.
TempPath(w) == <<Cwd, "Recorder", temp_file_name[w]>>

\* os.path.join(save_dir, temp_file_name), line 124.
FinalPath(d, w) == <<d, "Recorder", temp_file_name[w]>>

\* os.path.join(save_dir, f'capture_{t}.jpg'), lines 94-95.
PhotoPath(d, t) == <<d, "capture", t>>

Top(s) == s[Len(s)]
Pop(s) == SubSeq(s, 1, Len(s) - 1)

\* The main thread's event loop is running (at top level or inside a dialog).
EventLoop == mainPc = "idle"

\* Buttons and the close box react: the event loop runs and no modal dialog is up.
Interactive == EventLoop /\ dialogs = <<>>

\* The process has not been aborted.
Alive == mainPc # "aborted"

Init ==
    /\ now = 0
    /\ delivered = 0
    /\ released = FALSE
    /\ display = 0
    /\ files = [p \in Paths |-> 0]
    /\ nworkers = 0
    /\ wpc = [w \in Workers |-> "new"]
    /\ is_recording = [w \in Workers |-> FALSE]
    /\ out = [w \in Workers |-> "none"]
    /\ temp_file_name = [w \in Workers |-> 0]
    /\ frame = [w \in Workers |-> Unbound]
    /\ video = [w \in Workers |-> <<>>]
    /\ queue = <<>>
    /\ video_thread = None
    /\ label = "Record Video"
    /\ mainPc = "idle"
    /\ dialogs = <<>>
    /\ toggles = <<>>
    /\ handled = [w \in Workers |-> "none"]
    /\ save_dir = [w \in Workers |-> NoDir]
    /\ photo_calls = 0
    /\ photo_ret = FALSE
    /\ photo_dir = NoDir

\* datetime.now(): the clock never runs backwards.  It is read at lines 17 and 94
\* only, so it is advanced where it is read.
Clock(t) == t \in now..MaxTime

\* cap.read(): ret is the camera's answer; a released capture returns no frame.
CanRead(ret) == ret => (~released /\ delivered < MaxFrames)

\* A read that leaves the camera where it was, so that the next read returns
\* the same frame again.
grab_peek(ret) == delivered

\* cap.read(), lines 28, 78 and 90: the frames handed out after a read that
\* returned ret; a successful read returns frame number grab(TRUE).
grab(ret) == IF ret THEN delivered + 1 ELSE delivered

\* ------------------------------------------------------- VideoRecorder.run
\* Lines 21-23: the VideoWriter is constructed; it creates (or truncates) the
\* file when it opens, and is left unopened when it cannot.
Run_Open(w) ==
    /\ Alive
    /\ wpc[w] = "L21"
    /\ \E ok \in BOOLEAN :
         /\ out' = [out EXCEPT ![w] = IF ok THEN "open" ELSE "failed"]
         /\ files' = IF ok THEN [files EXCEPT ![TempPath(w)] = w] ELSE files
    /\ wpc' = [wpc EXCEPT ![w] = "L24"]
    /\ UNCHANGED <<now, capVars, display, nworkers, is_recording, temp_file_name,
                   frame, video, queue, video_thread, label, mainPc, dialogs,
                   histVars, photoVars>>

\* Line 24.
Run_SetFlag(w) ==
    /\ Alive
    /\ wpc[w] = "L24"
    /\ is_recording' = [is_recording EXCEPT ![w] = TRUE]
    /\ wpc' = [wpc EXCEPT ![w] = "L25"]
    /\ UNCHANGED <<now, capVars, display, files, nworkers, out, temp_file_name,
                   frame, video, queue, video_thread, label, mainPc, dialogs,
                   histVars, photoVars>>

\* Line 25.
Run_EmitStarted(w) ==
    /\ Alive
    /\ wpc[w] = "L25"
    /\ queue' = Append(queue, [sig |-> "started", w |-> w])
    /\ wpc' = [wpc EXCEPT ![w] = "L27"]
    /\ UNCHANGED <<now, capVars, display, files, nworkers, is_recording, out,
                   temp_file_name, frame, video, video_thread, label, mainPc,
                   dialogs, histVars, photoVars>>

\* Line 27.
Run_LoopTest(w) ==
    /\ Alive
    /\ wpc[w] = "L27"
    /\ wpc' = [wpc EXCEPT ![w] = IF is_recording[w] THEN "L28" ELSE "L32"]
    /\ UNCHANGED <<now, capVars, display, files, nworkers, is_recording, out,
                   temp_file_name, frame, video, queue, video_thread, label,
                   mainPc, dialogs, histVars, photoVars>>

\* A loop that gives up on the first failed read.
BreakOnFailedRead(ret) == IF ret THEN "L30" ELSE "L32"

\* Line 29: where run() goes after cap.read() returned ret.
AfterRead(ret) == IF ret THEN "L30" ELSE "L27"

\* Lines 28-29.
Run_Read(w) ==
    /\ Alive
    /\ wpc[w] = "L28"
    /\ \E ret \in BOOLEAN :
         /\ CanRead(ret)
         /\ delivered' = grab(ret)
         /\ frame' = [frame EXCEPT ![w] = IF ret THEN delivered + 1 ELSE NoFrame]
         /\ wpc' = [wpc EXCEPT ![w] = AfterRead(ret)]
    /\ UNCHANGED <<now, released, display, files, nworkers, is_recording, out,
                   temp_file_name, video, queue, video_thread, label, mainPc,
                   dialogs, histVars, photoVars>>

\* Line 30: an unopened VideoWriter drops the frame.
Run_Write(w) ==
    /\ Alive
    /\ wpc[w] = "L30"
    /\ video' = [video EXCEPT ![w] = IF out[w] = "open" THEN Append(@, frame[w]) ELSE @]
    /\ wpc' = [wpc EXCEPT ![w] = "L27"]
    /\ UNCHANGED <<now, capVars, display, files, nworkers, is_recording, out,
                   temp_file_name, frame, queue, video_thread, label, mainPc, dialogs,
                   histVars, photoVars>>

\* Line 32.
Run_Release(w) ==
    /\ Alive
    /\ wpc[w] = "L32"
    /\ out' = [out EXCEPT ![w] = IF @ = "open" THEN "closed" ELSE @]
    /\ wpc' = [wpc EXCEPT ![w] = "L33"]
    /\ UNCHANGED <<now, capVars, display, files, nworkers, is_recording,
                   temp_file_name, frame, video, queue, video_thread, label,
                   mainPc, dialogs, histVars, photoVars>>

\* Line 33, after which run() returns and the thread has finished.
Run_EmitStopped(w) ==
    /\ Alive
    /\ wpc[w] = "L33"
    /\ queue' = Append(queue, [sig |-> "stopped", w |-> w])
    /\ wpc' = [wpc EXCEPT ![w] = "done"]
    /\ UNCHANGED <<now, capVars, display, files, nworkers, is_recording, out,
                   temp_file_name, frame, video, video_thread, label, mainPc,
                   dialogs, histVars, photoVars>>

\* One step of worker w's thread.
run(w) ==
    \/ Run_Open(w)
    \/ Run_SetFlag(w)
    \/ Run_EmitStarted(w)
    \/ Run_LoopTest(w)
    \/ Run_Read(w)
    \/ Run_Write(w)
    \/ Run_Release(w)
    \/ Run_EmitStopped(w)

\* -------------------------------------------------------------- CameraApp
\* A tick that blanks the picture when the read failed.
DisplayCleared(ret) == IF ret THEN delivered + 1 ELSE 0

\* Lines 79-86: what picture_box shows after a tick whose read returned ret.
DisplayAfter(ret) == IF ret THEN delivered + 1 ELSE display

\* Lines 76-86: the QTimer's tick, delivered by whichever event loop runs.
update_frame ==
    /\ EventLoop
    /\ \E ret \in BOOLEAN :
         /\ CanRead(ret)
         /\ delivered' = grab(ret)
         /\ display' = DisplayAfter(ret)
    /\ UNCHANGED <<now, released, files, workerVars, queue, video_thread, label,
                   mainPc, dialogs, histVars, photoVars>>

\* Lines 88-92: the frame is read, and the directory dialog opens when ret.
save_image ==
    /\ Interactive
    /\ photo_calls < MaxPhotos
    /\ \E ret \in BOOLEAN :
         /\ CanRead(ret)
         /\ delivered' = grab(ret)
         /\ photo_ret' = ret
         /\ dialogs' = IF ret
                       THEN Append(dialogs, [h |-> "photo", w |-> None, f |-> delivered + 1])
                       ELSE dialogs
    /\ photo_calls' = photo_calls + 1
    /\ UNCHANGED <<now, released, display, files, workerVars, queue, video_thread,
                   label, mainPc, histVars, photo_dir>>

\* Line 96 without the test of line 93: a canceled dialog's '' joins to a path
\* in the working directory.
imwrite_unguarded(d, t) == [files EXCEPT ![PhotoPath(IF d = NoDir THEN Cwd ELSE d, t)] = Photo]

\* Lines 93-96: the files after cv.imwrite, when the dialog returned d at time t.
imwrite(d, t) == IF d # NoDir THEN [files EXCEPT ![PhotoPath(d, t)] = Photo] ELSE files

\* Lines 92-96: the photo's directory dialog returns.
save_image_return ==
    /\ EventLoop
    /\ dialogs # <<>>
    /\ Top(dialogs).h = "photo"
    /\ \E d \in Dirs \cup {NoDir}, t \in 0..MaxTime :
         /\ Clock(t)
         /\ now' = IF d # NoDir THEN t ELSE now
         /\ photo_dir' = d
         /\ files' = imwrite(d, t)
    /\ dialogs' = Pop(dialogs)
    /\ UNCHANGED <<capVars, display, workerVars, queue, video_thread, label,
                   mainPc, histVars, photo_calls, photo_ret>>

\* Line 100: the condition under which toggle_video_recording starts.
ToggleStarts == IF video_thread = None THEN TRUE ELSE ~is_recording[video_thread]

\* A start that runs the VideoRecorder it already has once more.
start_video_recording_reuse ==
    /\ nworkers < MaxWorkers
    /\ IF video_thread # None
       THEN /\ wpc' = [wpc EXCEPT ![video_thread] = "L21"]
            /\ UNCHANGED <<now, nworkers, temp_file_name, video_thread>>
       ELSE /\ nworkers' = nworkers + 1
            /\ now' = now
            /\ temp_file_name' = [temp_file_name EXCEPT ![nworkers + 1] = now]
            /\ wpc' = [wpc EXCEPT ![nworkers + 1] = "L21"]
            /\ video_thread' = nworkers + 1
    /\ UNCHANGED <<is_recording, out, frame, video, mainPc>>

\* Lines 105-110: a new VideoRecorder, named after the clock (line 17), started.
\* Line 107 only replaces the reference: a worker it pointed to is neither
\* stopped nor waited for, and its run() goes on.
start_video_recording ==
    /\ nworkers < MaxWorkers
    /\ nworkers' = nworkers + 1
    /\ \E t \in 0..MaxTime :
         /\ Clock(t)
         /\ now' = t
         /\ temp_file_name' = [temp_file_name EXCEPT ![nworkers + 1] = t]
    /\ wpc' = [wpc EXCEPT ![nworkers + 1] = "L21"]
    /\ video_thread' = nworkers + 1
    /\ UNCHANGED <<is_recording, out, frame, video, mainPc>>

\* Lines 132-136 up to the wait: video_thread is not None on this branch.
stop_video_recording ==
    /\ is_recording' = [is_recording EXCEPT ![video_thread] = FALSE]
    /\ mainPc' = "stop_wait"
    /\ UNCHANGED <<now, nworkers, wpc, out, temp_file_name, frame, video, video_thread>>

\* Lines 98-103: a click on the record button.
toggle_video_recording ==
    /\ Interactive
    /\ \/ /\ ToggleStarts
          /\ start_video_recording
          /\ toggles' = Append(toggles, "start")
       \/ /\ ~ToggleStarts
          /\ stop_video_recording
          /\ toggles' = Append(toggles, "stop")
    /\ UNCHANGED <<capVars, display, files, queue, label, dialogs, handled,
                   save_dir, photoVars>>

\* Lines 136 and 143: QThread.wait() returns once the thread has finished.
wait_return ==
    /\ mainPc \in {"stop_wait", "close_wait"}
    /\ wpc[video_thread] = "done"
    /\ mainPc' = IF mainPc = "stop_wait" THEN "idle" ELSE "closed"
    /\ UNCHANGED <<now, capVars, display, files, workerVars, queue, video_thread,
                   label, dialogs, histVars, photoVars>>

\* Line 114: the text on_recording_started gives the button.
StartedText == "Stop Recording"

\* A slot that leaves the button's text as it is.
StoppedTextKept == label

\* Line 118: the text on_recording_stopped gives the button.
StoppedText == "Record Video"

\* Lines 112-114: the queued recording_started reaches its slot.
on_recording_started ==
    /\ EventLoop
    /\ queue # <<>>
    /\ Head(queue).sig = "started"
    /\ queue' = Tail(queue)
    /\ label' = StartedText
    /\ UNCHANGED <<now, capVars, display, files, workerVars, video_thread, mainPc,
                   dialogs, histVars, photoVars>>

\* Lines 116-121: the queued recording_stopped reaches its slot, which sets the
\* button text and opens the directory dialog.
on_recording_stopped ==
    /\ EventLoop
    /\ queue # <<>>
    /\ Head(queue).sig = "stopped"
    /\ queue' = Tail(queue)
    /\ label' = StoppedText
    /\ dialogs' = Append(dialogs, [h |-> "stopped", w |-> Head(queue).w, f |-> 0])
    /\ handled' = [handled EXCEPT ![Head(queue).w] = "prompt"]
    /\ UNCHANGED <<now, capVars, display, files, workerVars, video_thread, mainPc,
                   toggles, save_dir, photoVars>>

\* A move that leaves the source behind.
os_rename_copy(src, dst) == [files EXCEPT ![dst] = files[src]]

\* os.rename(src, dst), line 125, when it succeeds.
os_rename(src, dst) ==
    IF src = dst THEN files ELSE [files EXCEPT ![dst] = files[src], ![src] = 0]

\* Lines 122 and 130: the dialog was canceled; the reference is cleared.
on_recording_stopped_cancel(w) ==
    /\ save_dir' = [save_dir EXCEPT ![w] = NoDir]
    /\ handled' = [handled EXCEPT ![w] = "canceled"]
    /\ video_thread' = None
    /\ dialogs' = Pop(dialogs)
    /\ UNCHANGED <<files, mainPc>>

\* Lines 122-128: a directory was picked and os.rename succeeded (the file is
\* there and the system allows the move); the "Video Saved" box opens.
on_recording_stopped_move(w) ==
    /\ \E d \in Dirs :
         /\ files[TempPath(w)] # 0
         /\ save_dir' = [save_dir EXCEPT ![w] = d]
         /\ files' = os_rename(TempPath(w), FinalPath(d, w))
    /\ handled' = [handled EXCEPT ![w] = "notice"]
    /\ dialogs' = [dialogs EXCEPT ![Len(dialogs)] = [h |-> "notice", w |-> w, f |-> 0]]
    /\ UNCHANGED <<video_thread, mainPc>>

\* Lines 122-125: a directory was picked and os.rename raised (no such file, another
\* file system, no permission, ...).  Nothing catches the exception: line 130 is
\* not reached, and PyQt either prints the traceback and goes on or aborts the process.
on_recording_stopped_raise(w) ==
    /\ \E d \in Dirs : save_dir' = [save_dir EXCEPT ![w] = d]
    /\ handled' = [handled EXCEPT ![w] = "failed"]
    /\ dialogs' = Pop(dialogs)
    /\ \E abort \in BOOLEAN : mainPc' = IF abort THEN "aborted" ELSE mainPc
    /\ UNCHANGED <<files, video_thread>>

\* Lines 121-130: the directory dialog of on_recording_stopped returns.
on_recording_stopped_return ==
    /\ EventLoop
    /\ dialogs # <<>>
    /\ Top(dialogs).h = "stopped"
    /\ \/ on_recording_stopped_cancel(Top(dialogs).w)
       \/ on_recording_stopped_move(Top(dialogs).w)
       \/ on_recording_stopped_raise(Top(dialogs).w)
    /\ UNCHANGED <<now, capVars, display, workerVars, queue, label, toggles, photoVars>>

\* Lines 128-130: the "Video Saved" box is closed; the reference is cleared.
on_recording_stopped_end ==
    /\ EventLoop
    /\ dialogs # <<>>
    /\ Top(dialogs).h = "notice"
    /\ handled' = [handled EXCEPT ![Top(dialogs).w] = "saved"]
    /\ video_thread' = None
    /\ dialogs' = Pop(dialogs)
    /\ UNCHANGED <<now, capVars, display, files, workerVars, queue, label, mainPc,
                   toggles, save_dir, photoVars>>

\* Lines 138-143 up to the wait.
closeEvent ==
    /\ Interactive
    /\ released' = TRUE
    /\ IF video_thread # None
       THEN /\ is_recording' = [is_recording EXCEPT ![video_thread] = FALSE]
            /\ mainPc' = "close_wait"
       ELSE /\ is_recording' = is_recording
            /\ mainPc' = "closed"
    /\ UNCHANGED <<now, delivered, display, files, nworkers, wpc, out, temp_file_name,
                   frame, video, queue, video_thread, label, dialogs, histVars,
                   photoVars>>

\* ------------------------------------------------------------ specification
Next ==
    \/ \E w \in Workers : run(w)
    \/ update_frame
    \/ save_image
    \/ save_image_return
    \/ toggle_video_recording
    \/ wait_return
    \/ on_recording_started
    \/ on_recording_stopped
    \/ on_recording_stopped_return
    \/ on_recording_stopped_end
    \/ closeEvent

Spec == Init /\ [][Next]_vars

\* Every started worker thread keeps being scheduled, and QThread.wait() returns
\* once the thread it waits for has finished.
FairSpec == Spec /\ (\A w \in Workers : WF_vars(run(w))) /\ WF_vars(wait_return)

\* ------------------------------------------------------------------ claims
\* The worker's thread has been started and its encoder is not yet closed
\* (Starting, Active or Stopping).
Live(w) == wpc[w] \in {"L21", "L24", "L25", "L27", "L28", "L30", "L32"}

\* Worker w has executed line 25.
StartedEmitted(w) == wpc[w] \in {"L27", "L28", "L30", "L32", "L33", "done"}

\* C1: at most one recording worker is Starting, Active or Stopping at any time.
C1_AtMostOneLiveWorker == Cardinality({w \in Workers : Live(w)}) <= 1

\* C2: the calls of toggle_video_recording alternate strictly: the odd calls take
\* the start branch, the even calls the stop branch.
C2_TogglesAlternate ==
    \A i \in 1..Len(toggles) : toggles[i] = IF i % 2 = 1 THEN "start" ELSE "stop"

\* C3: when closeEvent has returned, every worker ever started has finished and
\* no encoder is open.
C3_ShutdownLeavesNoWorker ==
    mainPc = "closed" => \A w \in Workers : wpc[w] \in {"new", "done"} /\ out[w] # "open"

\* C4 as claimed: the button reads "Stop Recording" exactly when some worker's
\* is_recording flag is true.
C4_LabelAgreesWithFlag ==
    (label = "Stop Recording") <=> (\E w \in Workers : is_recording[w])

\* C4 as amended: the button follows the notifications, not the flag: whenever it
\* reads "Stop Recording", some worker has set its flag and emitted "started", and
\* that worker's "stopped" notification has not reached on_recording_stopped yet.
C4_LabelFollowsNotifications ==
    (label = "Stop Recording") =>
        \E w \in Workers : StartedEmitted(w) /\ handled[w] = "none"

\* C4 witness: the label has been switched by a delivered "started" while the
\* worker's flag was already cleared again.
C4_Witness ==
    /\ label = "Stop Recording"
    /\ \A w \in Workers : ~is_recording[w]

\* C5: whenever the file a session's encoder created at its temporary path is
\* moved away, that encoder is no longer open and the move is made by the handler
\* of that session's own "stopped" notification.
C5_ClosedBeforeMove ==
    [][\A w \in Workers :
          (files[TempPath(w)] = w /\ files'[TempPath(w)] = 0)
              => (out[w] # "open" /\ handled[w] = "prompt" /\ handled'[w] = "notice")]_vars

\* C6: a worker whose encoder failed to open never sets its flag and never
\* emits "started".
C6_OpenFailureNeverActive ==
    \A w \in Workers : out[w] = "failed" => (~is_recording[w] /\ ~StartedEmitted(w))

\* The step in which on_recording_stopped, invoked for worker w, ends.
HandlerEnds(w) ==
    /\ handled[w] \in {"prompt", "notice"}
    /\ handled'[w] \in {"saved", "canceled", "failed"}

\* C7: when on_recording_stopped ends, video_thread is None, in every case.
C7_ReferenceCleared ==
    [][\A w \in Workers : HandlerEnds(w) => video_thread' = None]_vars

\* The recording session's state: the reference, the workers and the button.
RecordingState == <<video_thread, workerVars, label>>

\* C8: save_image opens the directory dialog exactly when the read succeeded and
\* writes nothing before the dialog returns; when the dialog returns a directory
\* exactly one file, capture_<timestamp>.jpg in that directory, is written, and
\* none when it was canceled; the recording session's state is never touched.
C8_CapturePhoto ==
    [][/\ (photo_calls' # photo_calls) =>
            /\ files' = files
            /\ UNCHANGED RecordingState
            /\ dialogs' = IF photo_ret'
                          THEN Append(dialogs, [h |-> "photo", w |-> None, f |-> delivered'])
                          ELSE dialogs
       /\ (dialogs # <<>> /\ Top(dialogs).h = "photo" /\ dialogs' = Pop(dialogs)) =>
            /\ UNCHANGED RecordingState
            /\ files' = IF photo_dir' = NoDir
                        THEN files
                        ELSE [files EXCEPT ![<<photo_dir', "capture", now'>>] = Photo]]_vars

\* C8 witness: a photo was taken and saved into a picked directory.
C8_Witness ==
    /\ photo_calls = 1
    /\ photo_ret
    /\ dialogs = <<>>
    /\ photo_dir = "D1"
    /\ files[<<"D1", "capture", now>>] = Photo

\* Worker w is inside the loop of lines 27-30.
InLoop(w) == wpc[w] \in {"L27", "L28", "L30"}

\* C9: a failed read at line 28 appends nothing, emits nothing and leaves the
\* worker in its loop with flag and encoder as they were; and a worker in its
\* loop whose flag has been cleared closes its encoder and emits "stopped".
C9_FailedReadsKeepActive ==
    /\ [][\A w \in Workers :
             (wpc[w] = "L28" /\ wpc'[w] # "L28" /\ delivered' = delivered) =>
                 /\ wpc'[w] = "L27"
                 /\ video'[w] = video[w]
                 /\ is_recording'[w] = is_recording[w]
                 /\ out'[w] = out[w]
                 /\ queue' = queue]_vars
    /\ \A w \in Workers :
          (InLoop(w) /\ ~is_recording[w]) ~> (wpc[w] = "done" /\ out[w] # "open")

\* C9 witness: a worker whose last read failed was stopped and has finished with
\* its encoder closed and nothing appended.
C9_Witness ==
    \E w \in Workers :
        /\ wpc[w] = "done"
        /\ frame[w] = NoFrame
        /\ video[w] = <<>>
        /\ out[w] = "closed"

\* C10 as claimed: when on_recording_stopped ends after a directory was picked,
\* the recording is at <directory>/<temporary name> and no longer at the temporary
\* path; after a cancel the files are as they were.
C10_MovedOrKept ==
    [][\A w \in Workers : HandlerEnds(w) =>
          IF save_dir'[w] # NoDir
          THEN files'[FinalPath(save_dir'[w], w)] # 0 /\ files'[TempPath(w)] = 0
          ELSE files' = files]_vars

\* C10 as amended: when a directory was picked and os.rename succeeded, the file
\* that was at the temporary path is at <directory>/<temporary name> right after
\* line 125, and no longer at the temporary path unless the working directory
\* itself was picked; no other file changes.  When the dialog was canceled or
\* os.rename raised, every file stays as it was.
C10_MoveOnSuccess ==
    [][\A w \in Workers :
          /\ (handled[w] = "prompt" /\ handled'[w] = "notice") =>
                /\ files[TempPath(w)] # 0
                /\ save_dir'[w] # NoDir
                /\ files'[FinalPath(save_dir'[w], w)] = files[TempPath(w)]
                /\ save_dir'[w] # Cwd => files'[TempPath(w)] = 0
                /\ \A p \in Paths \ {TempPath(w), FinalPath(save_dir'[w], w)} :
                       files'[p] = files[p]
          /\ (handled[w] = "prompt" /\ handled'[w] \in {"canceled", "failed"}) =>
                files' = files]_vars

\* C10 witness: a recording was moved into a picked directory.
C10_Witness ==
    \E w \in Workers :
        /\ handled[w] = "saved"
        /\ save_dir[w] = "D1"
        /\ files[FinalPath("D1", w)] = w
        /\ files[TempPath(w)] = 0

\* The frames stored in worker w's video file.
Recorded(w) == {video[w][i] : i \in DOMAIN video[w]}

C12_StopAlwaysTerminates ==
    \A w \in Workers :
        (mainPc \in {"stop_wait", "close_wait"} /\ video_thread = w)
            ~> (mainPc \notin {"stop_wait", "close_wait"} /\ wpc[w] = "done")

\* C13: every frame a worker read successfully is appended to its encoder before
\* the encoder is closed: line 30 appends the frame just read, the loop is left
\* only from the test of line 27 with the flag cleared (never between a read and
\* its write), and nothing is appended once the encoder is closed.
C13_EveryReadFrameAppended ==
    [][\A w \in Workers :
          /\ (wpc[w] = "L30" /\ wpc'[w] # "L30")
                => (frame[w] > 0 /\ video'[w] = Append(video[w], frame[w]))
          /\ (wpc[w] # "L32" /\ wpc'[w] = "L32")
                => (wpc[w] = "L27" /\ ~is_recording[w])
          /\ out[w] \in {"closed", "failed"} => video'[w] = video[w]]_vars


\* The phase of a worker, from the line it stands at: Idle before start, Starting
\* until line 24 has run, Active through the loop, Stopping, and Idle again.
Phase(pc) ==
    CASE pc = "new" -> 0
      [] pc \in {"L21", "L24"} -> 1
      [] pc \in {"L25", "L27", "L28", "L30"} -> 2
      [] pc \in {"L32", "L33"} -> 3
      [] pc = "done" -> 4

\* How many notifications m wait in the queue.
Queued(m) == Cardinality({i \in DOMAIN queue : queue[i] = m})

\* C14: a worker moves through Idle, Starting, Active, Stopping, Idle in that
\* order and never back; it emits started only at line 25 and stopped only at
\* line 33; its encoder is constructed only at line 21 and closed only at line
\* 32; and every start request creates a worker object that did not exist.
C14_WorkerLifecycleOnce ==
    [][/\ \A w \in Workers :
             /\ Phase(wpc'[w]) \in {Phase(wpc[w]), Phase(wpc[w]) + 1}
             /\ Queued([sig |-> "started", w |-> w])' > Queued([sig |-> "started", w |-> w])
                   => (wpc[w] = "L25" /\ wpc'[w] = "L27")
             /\ Queued([sig |-> "stopped", w |-> w])' > Queued([sig |-> "stopped", w |-> w])
                   => (wpc[w] = "L33" /\ wpc'[w] = "done")
             /\ out'[w] # out[w]
                   => \/ out[w] = "none" /\ wpc[w] = "L21" /\ wpc'[w] = "L24"
                      \/ out[w] = "open" /\ out'[w] = "closed" /\ wpc[w] = "L32"
             /\ (wpc[w] = "L21" /\ wpc'[w] = "L24") => out[w] = "none"
       /\ toggles' # toggles /\ toggles'[Len(toggles')] = "start"
             => /\ nworkers' = nworkers + 1
                /\ wpc[nworkers'] = "new" /\ wpc'[nworkers'] = "L21"
                /\ video_thread' = nworkers']_vars

\* Two sessions have run to their end on two different worker objects, the
\* first with its encoder opened and closed.
C14_Witness ==
    /\ nworkers = 2
    /\ wpc[1] = "done" /\ wpc[2] = "done"
    /\ out[1] = "closed"
    /\ Len(toggles) >= 2

\* C15: a worker that has been started and has not yet closed its encoder is the
\* one video_thread refers to.
C15_LiveWorkerIsReferenced == \A w \in Workers : Live(w) => video_thread = w

\* C16: no frame read is issued on the camera after cap.release(): a worker does
\* not execute line 28 on a released capture, and once the capture is released
\* the event loop that runs the preview tick and capturePhoto no longer runs.
C16_NoReadAfterRelease ==
    [][/\ \A w \in Workers : (wpc[w] = "L28" /\ wpc'[w] # "L28") => ~released
       /\ released => ~EventLoop]_vars

\* C17: a session never opens its encoder on a temporary path where a file
\* already exists.
C17_TempPathIsFresh ==
    [][\A w \in Workers :
          (wpc[w] = "L21" /\ out'[w] = "open") => files[TempPath(w)] = 0]_vars

\* C18: a step that changes the displayed picture is a preview tick: it reads
\* exactly one frame, shows that frame, and leaves the worker reference, the
\* workers (flag, encoder, video), the label, the files, the queue and the open
\* dialogs as they were; a tick whose read failed leaves the picture as it was.
C18_PreviewTick ==
    [][display' # display
          => /\ delivered' = delivered + 1
             /\ display' = delivered'
             /\ UNCHANGED <<RecordingState, files, queue, dialogs, released, mainPc>>]_vars

\* The preview shows the frame it read last while a session is Active and has
\* recorded an earlier frame.
C18_Witness ==
    \E w \in Workers :
        /\ is_recording[w] /\ InLoop(w) /\ video_thread = w
        /\ label = "Stop Recording"
        /\ video[w] # <<>>
        /\ display = delivered /\ display > video[w][Len(video[w])]

====
